---- MODULE Spec2Model ----
(***************************************************************************)
(* Model of benchq's ExtrapolationResourceEstimator                        *)
(* (resource_estimation/graph/extrapolation_estimator.py).                 *)
(*                                                                         *)
(* Numbers.  The code computes in IEEE doubles through numpy.  The model   *)
(* computes the least-squares line exactly over the rationals (a pair of   *)
(* integers num/den, den > 0) and keeps the three non-finite outcomes a    *)
(* double can take (nan, +inf, -inf) as separate kinds.  np.log is the     *)
(* natural logarithm rounded to two decimals, carried as an integer number *)
(* of hundredths (LnTable); the rounding of the table plays the part the   *)
(* rounding of a double plays in the code.  Where the outcome of the code  *)
(* depends on the floating-point build (an exact or an inexact zero        *)
(* residual, what LAPACK does with a non-finite matrix) the model draws it *)
(* from Envs.                                                              *)
(***************************************************************************)
EXTENDS Integers, Sequences, FiniteSets, TLC

VARIABLES
    estimator,               \* self: steps_to_extrapolate_from, n_measurement_steps_fit_type
    data,                    \* the samples handed to estimate_via_extrapolation
    program,                 \* algorithm_description.program
    x, y,                    \* arguments of a direct call of one of the two fits
    steps_to_extrapolate_to, \* ... and its query point
    op,                      \* the operation that ran: "none", "linear", "logarithmic", "estimate"
    pc,                      \* "ready", "returned" or "raised"
    fit_result,              \* outcome of the direct fit call
    extrapolated_info,       \* the ExtrapolatedGraphData handed downstream
    resource_info,           \* what the downstream step returned
    report,                  \* the ExtrapolatedResourceInfo returned
    raised,                  \* the exception estimate_via_extrapolation ended with
    downstream_calls         \* calls of _estimate_resources_from_graph_data

vars == << estimator, data, program, x, y, steps_to_extrapolate_to, op, pc,
           fit_result, extrapolated_info, resource_info, report, raised,
           downstream_calls >>

(***************************************************************************)
(* Bounds of the model.                                                    *)
(***************************************************************************)
MaxSamples == 3
MaxCount == 3
MaxMetric == 1
MaxGates == 1
MidStep == 27
FarStep == 729

\* round(..., 5)
Decimals == 5

StepValues == {0, 1, 2, MidStep, FarStep}
SmallSteps == {0, 1, 2, 3}
QuerySteps == {2, MidStep}
FitTypes == {"logarithmic", "linear", "exponential"}

(***************************************************************************)
(* Floating-point values.                                                  *)
(***************************************************************************)
RECURSIVE GCD(_, _)
GCD(a, b) == IF b = 0 THEN a ELSE GCD(b, a % b)

Abs(a) == IF a < 0 THEN -a ELSE a

\* the finite value num/den, in lowest terms
Fin(num, den) ==
    LET g == GCD(Abs(num), Abs(den))
        s == IF den < 0 THEN -1 ELSE 1
    IN [kind |-> "finite", num |-> s * (num \div g), den |-> s * (den \div g)]

NaN == [kind |-> "nan", num |-> 0, den |-> 1]
PosInf == [kind |-> "pos_inf", num |-> 0, den |-> 1]
NegInf == [kind |-> "neg_inf", num |-> 0, den |-> 1]
One == Fin(1, 1)

\* what the floating-point build decides in one call: what the LAPACK
\* least-squares driver does with a matrix that holds a nan (numpy raises
\* LinAlgError when it reports no convergence; otherwise the nan goes
\* through, with or without a residual), and whether the residual of a fit
\* that is exact comes out as 0.0 or as a positive rounding error
Envs == [svd : {"raises", "nan_no_residuals", "nan"}, zero_residual_exact : BOOLEAN]

RECURSIVE Sum(_)
Sum(s) == IF s = << >> THEN 0 ELSE Head(s) + Sum(Tail(s))

Products(s, t) == [i \in 1..Len(s) |-> s[i] * t[i]]

(***************************************************************************)
(* np.log: the natural logarithm in hundredths, for 1..Len(LnTable).       *)
(***************************************************************************)
LnTable == <<
    0, 69, 110, 139, 161, 179, 195, 208, 220, 230, 240, 248, 256, 264, 271, 277, 283, 289, 294, 300, 304, 309, 314, 318, 322,
    326, 330, 333, 337, 340, 343, 347, 350, 353, 356, 358, 361, 364, 366, 369, 371, 374, 376, 378, 381, 383, 385, 387, 389, 391,
    393, 395, 397, 399, 401, 403, 404, 406, 408, 409, 411, 413, 414, 416, 417, 419, 420, 422, 423, 425, 426, 428, 429, 430, 432,
    433, 434, 436, 437, 438, 439, 441, 442, 443, 444, 445, 447, 448, 449, 450, 451, 452, 453, 454, 455, 456, 457, 458, 460, 461,
    462, 462, 463, 464, 465, 466, 467, 468, 469, 470, 471, 472, 473, 474, 474, 475, 476, 477, 478, 479, 480, 480, 481, 482, 483,
    484, 484, 485, 486, 487, 488, 488, 489, 490, 491, 491, 492, 493, 493, 494, 495, 496, 496, 497, 498, 498, 499, 500, 500, 501,
    502, 502, 503, 504, 504, 505, 506, 506, 507, 508, 508, 509, 509, 510, 511, 511, 512, 512, 513, 514, 514, 515, 515, 516, 516,
    517, 518, 518, 519, 519, 520, 520, 521, 521, 522, 523, 523, 524, 524, 525, 525, 526, 526, 527, 527, 528, 528, 529, 529, 530,
    530, 531, 531, 532, 532, 533, 533, 534, 534, 535, 535, 536, 536, 537, 537, 538, 538, 538, 539, 539, 540, 540, 541, 541, 542,
    542, 542, 543, 543, 544, 544, 545, 545, 546, 546, 546, 547, 547, 548, 548, 548, 549, 549, 550, 550, 551, 551, 551, 552, 552,
    553, 553, 553, 554, 554, 555, 555, 555, 556, 556, 556, 557, 557, 558, 558, 558, 559, 559, 559, 560, 560, 561, 561, 561, 562,
    562, 562, 563, 563, 563, 564, 564, 565, 565, 565, 566, 566, 566, 567, 567, 567, 568, 568, 568, 569, 569, 569, 570, 570, 570,
    571, 571, 571, 572, 572, 572, 573, 573, 573, 574, 574, 574, 575, 575, 575, 576, 576, 576, 577, 577, 577, 577, 578, 578, 578,
    579, 579, 579, 580, 580, 580, 581, 581, 581, 581, 582, 582, 582, 583, 583, 583, 583, 584, 584, 584, 585, 585, 585, 586, 586,
    586, 586, 587, 587, 587, 587, 588, 588, 588, 589, 589, 589, 589, 590, 590, 590, 591, 591, 591, 591, 592, 592, 592, 592, 593,
    593, 593, 593, 594, 594, 594, 595, 595, 595, 595, 596, 596, 596, 596, 597, 597, 597, 597, 598, 598, 598, 598, 599, 599, 599,
    599, 600, 600, 600, 600, 601, 601, 601, 601, 602, 602, 602, 602, 603, 603, 603, 603, 604, 604, 604, 604, 605, 605, 605, 605,
    605, 606, 606, 606, 606, 607, 607, 607, 607, 608, 608, 608, 608, 608, 609, 609, 609, 609, 610, 610, 610, 610, 610, 611, 611,
    611, 611, 612, 612, 612, 612, 612, 613, 613, 613, 613, 614, 614, 614, 614, 614, 615, 615, 615, 615, 615, 616, 616, 616, 616,
    617, 617, 617, 617, 617, 618, 618, 618, 618, 618, 619, 619, 619, 619, 619, 620, 620, 620, 620, 620, 621, 621, 621, 621, 621,
    622, 622, 622, 622, 622, 623, 623, 623, 623, 623, 624, 624, 624, 624, 624, 625, 625, 625, 625, 625, 626, 626, 626, 626, 626,
    627, 627, 627, 627, 627, 627, 628, 628, 628, 628, 628, 629, 629, 629, 629, 629, 630, 630, 630, 630, 630, 630, 631, 631, 631,
    631, 631, 632, 632, 632, 632, 632, 632, 633, 633, 633, 633, 633, 634, 634, 634, 634, 634, 634, 635, 635, 635, 635, 635, 635,
    636, 636, 636, 636, 636, 636, 637, 637, 637, 637, 637, 638, 638, 638, 638, 638, 638, 639, 639, 639, 639, 639, 639, 640, 640,
    640, 640, 640, 640, 641, 641, 641, 641, 641, 641, 642, 642, 642, 642, 642, 642, 642, 643, 643, 643, 643, 643, 643, 644, 644,
    644, 644, 644, 644, 645, 645, 645, 645, 645, 645, 646, 646, 646, 646, 646, 646, 646, 647, 647, 647, 647, 647, 647, 648, 648,
    648, 648, 648, 648, 648, 649, 649, 649, 649, 649, 649, 650, 650, 650, 650, 650, 650, 650, 651, 651, 651, 651, 651, 651, 651,
    652, 652, 652, 652, 652, 652, 653, 653, 653, 653, 653, 653, 653, 654, 654, 654, 654, 654, 654, 654, 655, 655, 655, 655, 655,
    655, 655, 656, 656, 656, 656, 656, 656, 656, 657, 657, 657, 657, 657, 657, 657, 658, 658, 658, 658, 658, 658, 658, 658, 659,
    659, 659, 659, 659, 659, 659, 660, 660, 660, 660, 660, 660, 660, 661, 661, 661, 661, 661, 661, 661, 661, 662, 662, 662, 662 >>

\* np.log of one number: -inf at 0 and nan below it, with a RuntimeWarning
\* and no exception
NpLog(v) ==
    IF v > 0 THEN [kind |-> "finite", hundredths |-> LnTable[v]]
    ELSE IF v = 0 THEN [kind |-> "neg_inf", hundredths |-> 0]
    ELSE [kind |-> "nan", hundredths |-> 0]

NpLogSeq(s) == [i \in 1..Len(s) |-> NpLog(s[i])]

AllFinite(ls) == \A i \in 1..Len(ls) : ls[i].kind = "finite"

Hundredths(ls) == [i \in 1..Len(ls) |-> ls[i].hundredths]

(***************************************************************************)
(* np.polyfit(xs, ys, 1, full=True).  xs are the abscissas in a common     *)
(* unit (1 for a linear fit, 1/100 for a logarithmic one); the line is     *)
(* returned as slope_num/den and intercept_num/den in that unit, so that   *)
(* its value at an abscissa t of the same unit is                          *)
(* (slope_num * t + intercept_num) / den.  residuals is empty when the     *)
(* system is not overdetermined (no more points than coefficients) or is   *)
(* rank deficient, as numpy.linalg.lstsq documents.                        *)
(***************************************************************************)
NoLine == [slope_num |-> 0, intercept_num |-> 0, den |-> 1]

PolyfitResult(error, nan, line, residuals) ==
    [error |-> error, nan |-> nan, line |-> line, residuals |-> residuals]

Polyfit(xs, finite, ys, env) ==
    LET n == Len(xs)
        Sx == Sum(xs)
        Sy == Sum(ys)
        Sxx == Sum(Products(xs, xs))
        Sxy == Sum(Products(xs, ys))
        Syy == Sum(Products(ys, ys))
        D == n * Sxx - Sx * Sx
        Nm == n * Sxy - Sx * Sy
        Nc == Sy * Sxx - Sx * Sxy
        T == n * Syy - Sy * Sy
    IN  IF Len(xs) # Len(ys)
        THEN PolyfitResult("TypeError", FALSE, NoLine, << >>)
        ELSE IF ~finite
        THEN IF env.svd = "raises"
             THEN PolyfitResult("LinAlgError", FALSE, NoLine, << >>)
             ELSE IF env.svd = "nan_no_residuals" \/ n <= 2
             THEN PolyfitResult("none", TRUE, NoLine, << >>)
             ELSE PolyfitResult("none", TRUE, NoLine, << NaN >>)
        ELSE IF D = 0 \/ n <= 2
        THEN PolyfitResult("none", FALSE, NoLine, << >>)
        ELSE PolyfitResult("none", FALSE,
                 [slope_num |-> Nm, intercept_num |-> Nc, den |-> D],
                 << Fin(T * D - Nm * Nm, n * D) >>)

\* len(y) * np.var(y): the population variance times the sample count
NTimesVariance(ys) ==
    LET n == Len(ys)
    IN Fin(n * Sum(Products(ys, ys)) - Sum(ys) * Sum(ys), n)

\* 1 - (sum_of_residuals[0] / (len(y) * np.var(y))): numpy divides by zero
\* with a warning, giving nan for 0/0 and inf otherwise
RSquared(residual, ys, env) ==
    LET nvar == NTimesVariance(ys)
    IN  IF residual.kind # "finite" THEN NaN
        ELSE IF nvar.num = 0
        THEN IF residual.num = 0 /\ env.zero_residual_exact THEN NaN ELSE NegInf
        ELSE LET ratio == Fin(residual.num * nvar.den, residual.den * nvar.num)
             IN Fin(ratio.den - ratio.num, ratio.den)

\* m * t + c
PolyEval(fit, t) ==
    IF fit.nan THEN NaN
    ELSE Fin(fit.line.slope_num * t + fit.line.intercept_num, fit.line.den)

(***************************************************************************)
(* round(v, 5) and math.ceil.                                              *)
(***************************************************************************)
\* <<the first k decimals of rem/den, the remainder left>>, by long division
RECURSIVE LongDivision(_, _, _)
LongDivision(rem, den, k) ==
    IF k = 0 THEN << 0, rem >>
    ELSE LET prev == LongDivision(rem, den, k - 1)
             t == prev[2] * 10
         IN << prev[1] * 10 + (t \div den), t % den >>

\* round(v, Decimals): to the nearest multiple of 10^-Decimals, halves to even
Round(v) ==
    IF v.kind # "finite" THEN v
    ELSE LET whole == v.num \div v.den
             d == LongDivision(v.num % v.den, v.den, Decimals)
             up == \/ 2 * d[2] > v.den
                   \/ 2 * d[2] = v.den /\ d[1] % 2 = 1
             units == d[1] + (IF up THEN 1 ELSE 0)
         IN Fin(whole * (10 ^ Decimals) + units, 10 ^ Decimals)

\* math.ceil of a finite value
Ceil(v) == -((-v.num) \div v.den)

(***************************************************************************)
(* The two fits.  An outcome is either a returned pair or the exception    *)
(* raised, with the statement that raised it.                              *)
(***************************************************************************)
Returned(value, r_squared) ==
    [status |-> "returned", error |-> "none", at |-> "none",
     polyfit_called |-> TRUE, value |-> value, r_squared |-> r_squared]

Raised(error, at, polyfit_called) ==
    [status |-> "raised", error |-> error, at |-> at,
     polyfit_called |-> polyfit_called, value |-> 0, r_squared |-> NaN]

NoFit == [status |-> "none", error |-> "none", at |-> "none",
          polyfit_called |-> FALSE, value |-> 0, r_squared |-> NaN]

\* the tail both fits share: r_squared, then math.ceil of the point
FitOutcome(fit, ys, point, env) ==
    IF fit.error # "none" THEN Raised(fit.error, "polyfit", TRUE)
    ELSE IF fit.residuals = << >> THEN Raised("IndexError", "r_squared", TRUE)
    ELSE IF point.kind = "nan" THEN Raised("ValueError", "ceil", TRUE)
    ELSE IF point.kind # "finite" THEN Raised("OverflowError", "ceil", TRUE)
    ELSE Returned(Ceil(point), RSquared(fit.residuals[1], ys, env))

\* LinearExtrapolation with int() in place of math.ceil
LinearExtrapolationTruncating(xs, ys, steps, env) ==
    LET fit == Polyfit(xs, TRUE, ys, env)
        rounded_point == Round(PolyEval(fit, steps))
        outcome == FitOutcome(fit, ys, rounded_point, env)
    IN  IF outcome.status = "returned"
        THEN [outcome EXCEPT !.value = rounded_point.num \div rounded_point.den]
        ELSE outcome

\* LinearExtrapolation with the coefficients unpacked as c, m
LinearExtrapolationSwapped(xs, ys, steps, env) ==
    LET fit == Polyfit(xs, TRUE, ys, env)
        swapped == [fit EXCEPT !.line = [slope_num |-> fit.line.intercept_num,
                                         intercept_num |-> fit.line.slope_num,
                                         den |-> fit.line.den]]
        rounded_point == Round(PolyEval(swapped, steps))
    IN FitOutcome(fit, ys, rounded_point, env)

LinearExtrapolation(xs, ys, steps, env) ==
    LET fit == Polyfit(xs, TRUE, ys, env)
        rounded_point == Round(PolyEval(fit, steps))
    IN FitOutcome(fit, ys, rounded_point, env)

\* m * np.log(steps) + c; no rounding is applied to it
LogarithmicPoint(fit, steps) ==
    LET t == NpLog(steps)
    IN  IF t.kind = "finite" THEN PolyEval(fit, t.hundredths)
        ELSE IF fit.nan \/ t.kind = "nan" \/ fit.line.slope_num = 0 THEN NaN
        ELSE IF fit.line.slope_num > 0 THEN NegInf
        ELSE PosInf

LogarithmicExtrapolation(xs, ys, steps, env) ==
    LET log_x == NpLogSeq(xs)
        fit == Polyfit(Hundredths(log_x), AllFinite(log_x), ys, env)
        rounded_point == LogarithmicPoint(fit, steps)
    IN FitOutcome(fit, ys, rounded_point, env)

(***************************************************************************)
(* ExtrapolationResourceEstimator.                                         *)
(***************************************************************************)
Column(samples, field) == [i \in 1..Len(samples) |-> samples[i][field]]

NoGraphData ==
    [max_graph_degree |-> 0, n_measurement_steps |-> 0, n_nodes |-> 0,
     n_t_gates |-> 0, n_rotation_gates |-> 0,
     max_graph_degree_r_squared |-> NaN, n_measurement_steps_r_squared |-> NaN]

NoMessage == [accepted |-> << >>, rejected |-> ""]

GraphDataResult(status, error, at, message, graph_data) ==
    [status |-> status, error |-> error, at |-> at, message |-> message,
     graph_data |-> graph_data]

\* the fit of the measurement steps that the estimator is configured with
MeasurementStepsFit(self, samples, prog, env) ==
    IF self.n_measurement_steps_fit_type = "logarithmic"
    THEN LogarithmicExtrapolation(self.steps_to_extrapolate_from,
             Column(samples, "n_measurement_steps"), prog.steps, env)
    ELSE IF self.n_measurement_steps_fit_type = "linear"
    THEN LinearExtrapolation(self.steps_to_extrapolate_from,
             Column(samples, "n_measurement_steps"), prog.steps, env)
    ELSE Raised("ValueError", "fit_type", FALSE)

\* GetExtrapolatedGraphData with the degree fitted by the configured family
GetExtrapolatedGraphDataConfigured(self, samples, prog, env) ==
    LET degree == IF self.n_measurement_steps_fit_type = "logarithmic"
                  THEN LogarithmicExtrapolation(self.steps_to_extrapolate_from,
                           Column(samples, "n_logical_qubits"), prog.steps, env)
                  ELSE LinearExtrapolation(self.steps_to_extrapolate_from,
                           Column(samples, "n_logical_qubits"), prog.steps, env)
        steps == MeasurementStepsFit(self, samples, prog, env)
    IN  IF degree.status = "raised"
        THEN GraphDataResult("raised", degree.error, "degree_fit", NoMessage, NoGraphData)
        ELSE IF steps.status = "raised" /\ steps.at = "fit_type"
        THEN GraphDataResult("raised", "ValueError", "fit_type",
                 [accepted |-> << "logarithmic", "linear" >>,
                  rejected |-> self.n_measurement_steps_fit_type],
                 NoGraphData)
        ELSE IF steps.status = "raised"
        THEN GraphDataResult("raised", steps.error, "measurement_steps_fit",
                 NoMessage, NoGraphData)
        ELSE GraphDataResult("returned", "none", "none", NoMessage,
                 [max_graph_degree |-> degree.value,
                  n_measurement_steps |-> steps.value,
                  n_nodes |-> prog.n_t_gates + prog.n_rotation_gates,
                  n_t_gates |-> prog.n_t_gates,
                  n_rotation_gates |-> prog.n_rotation_gates,
                  max_graph_degree_r_squared |-> degree.r_squared,
                  n_measurement_steps_r_squared |-> steps.r_squared])

GetExtrapolatedGraphData(self, samples, prog, env) ==
    LET degree == LinearExtrapolation(self.steps_to_extrapolate_from,
                      Column(samples, "n_logical_qubits"), prog.steps, env)
        steps == MeasurementStepsFit(self, samples, prog, env)
    IN  IF degree.status = "raised"
        THEN GraphDataResult("raised", degree.error, "degree_fit", NoMessage, NoGraphData)
        ELSE IF steps.status = "raised" /\ steps.at = "fit_type"
        THEN GraphDataResult("raised", "ValueError", "fit_type",
                 [accepted |-> << "logarithmic", "linear" >>,
                  rejected |-> self.n_measurement_steps_fit_type],
                 NoGraphData)
        ELSE IF steps.status = "raised"
        THEN GraphDataResult("raised", steps.error, "measurement_steps_fit",
                 NoMessage, NoGraphData)
        ELSE GraphDataResult("returned", "none", "none", NoMessage,
                 [max_graph_degree |-> degree.value,
                  n_measurement_steps |-> steps.value,
                  n_nodes |-> prog.n_t_gates + prog.n_rotation_gates,
                  n_t_gates |-> prog.n_t_gates,
                  n_rotation_gates |-> prog.n_rotation_gates,
                  max_graph_degree_r_squared |-> degree.r_squared,
                  n_measurement_steps_r_squared |-> steps.r_squared])

NoResourceInfo ==
    [n_logical_qubits |-> 0, n_measurement_steps |-> 0, n_nodes |-> 0,
     n_t_gates |-> 0, n_rotation_gates |-> 0]

\* a count of the graph data as the downstream step reports it back: the
\* count it was handed, or another one
Reported(count, changed) == IF changed THEN count + 1 ELSE count

\* GraphResourceEstimator._estimate_resources_from_graph_data: the resource
\* reports it may return for the graph data.  Of the fields the estimator
\* copies unread only the first two are kept.
DownstreamResults(graph_data) ==
    { [n_logical_qubits |-> graph_data.max_graph_degree,
       n_measurement_steps |-> graph_data.n_measurement_steps,
       n_nodes |-> Reported(graph_data.n_nodes, n),
       n_t_gates |-> Reported(graph_data.n_t_gates, t),
       n_rotation_gates |-> Reported(graph_data.n_rotation_gates, g)] :
      n \in BOOLEAN, t \in BOOLEAN, g \in BOOLEAN }

NoReport ==
    [n_logical_qubits |-> 0, n_measurement_steps |-> 0, n_nodes |-> 0,
     n_t_gates |-> 0, n_rotation_gates |-> 0,
     n_logical_qubits_r_squared |-> NaN, n_measurement_steps_r_squared |-> NaN,
     data_used_to_extrapolate |-> << >>, steps_to_extrapolate_to |-> 0]

\* BuildReport with the two R-squared arguments exchanged
BuildReportSwapped(info, graph_data, prog, samples) ==
    [n_logical_qubits |-> info.n_logical_qubits,
     n_measurement_steps |-> info.n_measurement_steps,
     n_nodes |-> prog.n_nodes,
     n_t_gates |-> info.n_t_gates,
     n_rotation_gates |-> info.n_rotation_gates,
     n_logical_qubits_r_squared |-> graph_data.n_measurement_steps_r_squared,
     n_measurement_steps_r_squared |-> graph_data.max_graph_degree_r_squared,
     data_used_to_extrapolate |-> samples,
     steps_to_extrapolate_to |-> prog.steps]

\* BuildReport with the node count taken from the downstream result
BuildReportDownstreamNodes(info, graph_data, prog, samples) ==
    [n_logical_qubits |-> info.n_logical_qubits,
     n_measurement_steps |-> info.n_measurement_steps,
     n_nodes |-> info.n_nodes,
     n_t_gates |-> info.n_t_gates,
     n_rotation_gates |-> info.n_rotation_gates,
     n_logical_qubits_r_squared |-> graph_data.max_graph_degree_r_squared,
     n_measurement_steps_r_squared |-> graph_data.n_measurement_steps_r_squared,
     data_used_to_extrapolate |-> samples,
     steps_to_extrapolate_to |-> prog.steps]

\* the ExtrapolatedResourceInfo(...) that estimate_via_extrapolation returns
BuildReport(info, graph_data, prog, samples) ==
    [n_logical_qubits |-> info.n_logical_qubits,
     n_measurement_steps |-> info.n_measurement_steps,
     n_nodes |-> prog.n_nodes,
     n_t_gates |-> info.n_t_gates,
     n_rotation_gates |-> info.n_rotation_gates,
     n_logical_qubits_r_squared |-> graph_data.max_graph_degree_r_squared,
     n_measurement_steps_r_squared |-> graph_data.n_measurement_steps_r_squared,
     data_used_to_extrapolate |-> samples,
     steps_to_extrapolate_to |-> prog.steps]

NoException == [error |-> "none", at |-> "none", message |-> NoMessage]

(***************************************************************************)
(* Inputs.                                                                 *)
(***************************************************************************)
SeqsOver(S) == UNION { [1..n -> S] : n \in 2..MaxSamples }

Nondecreasing(s) == \A i \in 1..(Len(s) - 1) : s[i] <= s[i + 1]

StepLists(S) == { s \in SeqsOver(S) : Nondecreasing(s) }

Increasing(s) == \A i \in 1..(Len(s) - 1) : s[i] < s[i + 1]

ResourceInfos ==
    [n_logical_qubits : 0..MaxMetric, n_measurement_steps : 0..MaxMetric]

\* the target programs: the node count is the number of T and rotation
\* gates, or one more
QuantumPrograms ==
    { [steps |-> s, n_t_gates |-> t, n_rotation_gates |-> g,
       n_nodes |-> t + g + (IF more THEN 1 ELSE 0)] :
      s \in QuerySteps, t \in 0..MaxGates, g \in 0..MaxGates, more \in BOOLEAN }

\* the estimators: step counts in increasing order
Estimators ==
    [steps_to_extrapolate_from : { s \in SeqsOver(SmallSteps) : Increasing(s) },
     n_measurement_steps_fit_type : FitTypes]

\* the sample lists: neither metric shrinks from one sample to the next
SampleLists ==
    { s \in SeqsOver(ResourceInfos) :
          /\ Nondecreasing(Column(s, "n_logical_qubits"))
          /\ Nondecreasing(Column(s, "n_measurement_steps")) }

NoEstimator ==
    [steps_to_extrapolate_from |-> << >>, n_measurement_steps_fit_type |-> "logarithmic"]

NoProgram == [steps |-> 0, n_t_gates |-> 0, n_rotation_gates |-> 0, n_nodes |-> 0]

Idle ==
    /\ op = "none"
    /\ pc = "ready"
    /\ fit_result = NoFit
    /\ extrapolated_info = NoGraphData
    /\ resource_info = NoResourceInfo
    /\ report = NoReport
    /\ raised = NoException
    /\ downstream_calls = 0

\* an estimator as constructed, with one sample per step count it was
\* constructed with, and a target program
Init ==
    /\ estimator \in Estimators
    /\ data \in SampleLists
    /\ Len(data) = Len(estimator.steps_to_extrapolate_from)
    /\ program \in QuantumPrograms
    /\ x = << >>
    /\ y = << >>
    /\ steps_to_extrapolate_to = 0
    /\ Idle

\* the arguments of one call of a fit
InitFit ==
    /\ estimator = NoEstimator
    /\ data = << >>
    /\ program = NoProgram
    /\ x \in StepLists(StepValues)
    /\ y \in SeqsOver(0..MaxCount)
    /\ steps_to_extrapolate_to \in QuerySteps
    /\ Idle

(***************************************************************************)
(* Operations.                                                             *)
(***************************************************************************)
FitCalled(name, outcome) ==
    /\ op' = name
    /\ pc' = outcome.status
    /\ fit_result' = outcome
    /\ UNCHANGED << estimator, data, program, x, y, steps_to_extrapolate_to,
                    extrapolated_info, resource_info, report, raised,
                    downstream_calls >>

GetLinearExtrapolation ==
    /\ pc = "ready"
    /\ \E env \in Envs :
          FitCalled("linear", LinearExtrapolation(x, y, steps_to_extrapolate_to, env))

GetLogarithmicExtrapolation ==
    /\ pc = "ready"
    /\ \E env \in Envs :
          FitCalled("logarithmic",
                    LogarithmicExtrapolation(x, y, steps_to_extrapolate_to, env))

EstimateViaExtrapolation ==
    /\ pc = "ready"
    /\ \E env \in Envs :
          \E got \in {GetExtrapolatedGraphData(estimator, data, program, env)} :
              IF got.status = "raised"
              THEN /\ pc' = "raised"
                   /\ raised' = [error |-> got.error, at |-> got.at,
                                 message |-> got.message]
                   /\ UNCHANGED << extrapolated_info, resource_info, report,
                                   downstream_calls >>
              ELSE \E info \in DownstreamResults(got.graph_data) :
                   /\ pc' = "returned"
                   /\ extrapolated_info' = got.graph_data
                   /\ downstream_calls' = downstream_calls + 1
                   /\ resource_info' = info
                   /\ report' = BuildReport(info, got.graph_data, program, data)
                   /\ UNCHANGED raised
    /\ op' = "estimate"
    /\ UNCHANGED << estimator, data, program, x, y, steps_to_extrapolate_to,
                    fit_result >>

Next == EstimateViaExtrapolation

NextFit == GetLinearExtrapolation \/ GetLogarithmicExtrapolation

Spec == Init /\ [][Next]_vars

SpecFit == InitFit /\ [][NextFit]_vars

(***************************************************************************)
(* Properties.                                                             *)
(***************************************************************************)
FitDone == op \in {"linear", "logarithmic"}

EstimateReturned == op = "estimate" /\ pc = "returned"

Constant(s) == \A i, j \in 1..Len(s) : s[i] = s[j]

Positive(s) == \A i \in 1..Len(s) : s[i] > 0

\* the samples lie exactly on the line through samples i and j
OnLineThrough(xs, ys, i, j) ==
    /\ xs[i] < xs[j]
    /\ \A k \in 1..Len(xs) :
          (ys[k] - ys[i]) * (xs[j] - xs[i]) = (ys[j] - ys[i]) * (xs[k] - xs[i])

\* ys = a * xs + b exactly, for some a and b
ExactlyLinear(xs, ys) ==
    /\ Len(xs) = Len(ys)
    /\ \/ Constant(ys)
       \/ \E i, j \in 1..Len(xs) : OnLineThrough(xs, ys, i, j)

\* a * t + b for the line ys = a * xs + b
LineAt(xs, ys, t) ==
    LET ij == CHOOSE p \in (1..Len(xs)) \X (1..Len(xs)) :
                  OnLineThrough(xs, ys, p[1], p[2])
        i == ij[1]
        j == ij[2]
    IN Fin(ys[i] * (xs[j] - xs[i]) + (t - xs[i]) * (ys[j] - ys[i]), xs[j] - xs[i])

CollinearCase ==
    /\ op = "linear"
    /\ Len(x) >= 3
    /\ ExactlyLinear(x, y)
    /\ ~Constant(y)

\* C1: a Linear fit of at least 3 samples lying exactly on y = a*x + b, y not
\* constant, returns R-squared 1 and the projection ceil(round(a*query + b, 5)).
C1_LinearFitOfCollinearSamples ==
    CollinearCase =>
        /\ fit_result.status = "returned"
        /\ fit_result.r_squared = One
        /\ fit_result.value = Ceil(Round(LineAt(x, y, steps_to_extrapolate_to)))

\* a collinear fit whose line passes the query point between two integers
C1_Witness ==
    /\ CollinearCase
    /\ fit_result.status = "returned"
    /\ LineAt(x, y, steps_to_extrapolate_to).den # 1

\* C2: a Logarithmic fit (here of 3 or more samples) given a step count <= 0
\* fails at the log transformation, before np.polyfit is called, and never
\* returns a pair.
C2_LogOfNonPositiveFailsAtTransformation ==
    (op = "logarithmic" /\ Len(x) = Len(y) /\ Len(x) >= 3 /\ ~Positive(x)) =>
        /\ fit_result.status = "raised"
        /\ fit_result.at = "log"
        /\ ~fit_result.polyfit_called

\* C3: with a fit type that is neither 'logarithmic' nor 'linear',
\* estimate_via_extrapolation fails with the configuration error naming the
\* value and the two accepted values, no other failure takes its place and
\* the downstream step is not called.
C3_UnknownFitTypeIsAConfigurationError ==
    (op = "estimate"
        /\ estimator.n_measurement_steps_fit_type \notin {"logarithmic", "linear"}) =>
        /\ pc = "raised"
        /\ raised.error = "ValueError"
        /\ raised.at = "fit_type"
        /\ raised.message.rejected = estimator.n_measurement_steps_fit_type
        /\ raised.message.accepted = << "logarithmic", "linear" >>
        /\ downstream_calls = 0

\* C4: a fit of exactly 2 samples with distinct step counts and distinct
\* dependent values succeeds, under either family, with R-squared exactly 1.
C4_TwoPointFitSucceeds ==
    (FitDone /\ Len(x) = 2 /\ Len(y) = 2 /\ Positive(x)
        /\ x[1] # x[2] /\ y[1] # y[2]) =>
        /\ fit_result.status = "returned"
        /\ fit_result.r_squared = One

\* inputs on which np.polyfit returns a line and a residual
FitsALine ==
    /\ FitDone
    /\ Len(x) = Len(y)
    /\ Len(x) >= 3
    /\ ~Constant(x)
    /\ op = "logarithmic" => Positive(x)

\* C5: when all dependent values are identical the fit surfaces a distinct
\* degenerate-input outcome and never returns an R-squared that is NaN or
\* infinite.
C5_ZeroVarianceIsDetected ==
    (FitsALine /\ Constant(y)) =>
        /\ fit_result.status = "raised" => fit_result.at = "zero_variance"
        /\ fit_result.status = "returned" => fit_result.r_squared.kind = "finite"

\* the degree fit by itself
DirectDegreeFit(env) ==
    LinearExtrapolation(estimator.steps_to_extrapolate_from,
        Column(data, "n_logical_qubits"), program.steps, env)

WithFitType(fit_type) ==
    [estimator EXCEPT !.n_measurement_steps_fit_type = fit_type]

\* C6: the degree projection and its R-squared are those of a Linear fit of
\* n_logical_qubits against steps_to_extrapolate_from at program.steps, and
\* are the same for an estimator configured 'logarithmic' as for one
\* configured 'linear'.
C6_DegreeIsAlwaysALinearFit ==
    EstimateReturned =>
        \E env \in Envs : \E direct \in {DirectDegreeFit(env)} :
            /\ direct.status = "returned"
            /\ extrapolated_info.max_graph_degree = direct.value
            /\ extrapolated_info.max_graph_degree_r_squared = direct.r_squared
            /\ \A fit_type \in {"logarithmic", "linear"} :
                  \E other \in {GetExtrapolatedGraphData(WithFitType(fit_type),
                                    data, program, env)} :
                      other.status = "returned" =>
                          /\ other.graph_data.max_graph_degree
                                 = extrapolated_info.max_graph_degree
                          /\ other.graph_data.max_graph_degree_r_squared
                                 = extrapolated_info.max_graph_degree_r_squared

\* an estimator configured 'logarithmic' whose Logarithmic fit of the degree
\* would have projected another value
C6_Witness ==
    /\ EstimateReturned
    /\ estimator.n_measurement_steps_fit_type = "logarithmic"
    /\ \E env \in Envs :
          LET log_fit == LogarithmicExtrapolation(estimator.steps_to_extrapolate_from,
                             Column(data, "n_logical_qubits"), program.steps, env)
          IN /\ log_fit.status = "returned"
             /\ log_fit.value # extrapolated_info.max_graph_degree

\* C7: the report carries the program's step count, the input samples as
\* given, and the R-squared of the degree fit and of the measurement-step fit.
C7_ReportCarriesProvenance ==
    EstimateReturned =>
        /\ report.steps_to_extrapolate_to = program.steps
        /\ report.data_used_to_extrapolate = data
        /\ \E env \in Envs :
              \E degree \in {DirectDegreeFit(env)},
                 steps \in {MeasurementStepsFit(estimator, data, program, env)} :
                  /\ degree.status = "returned"
                  /\ steps.status = "returned"
                  /\ report.n_logical_qubits_r_squared = degree.r_squared
                  /\ report.n_measurement_steps_r_squared = steps.r_squared

\* a report whose two R-squared values differ
C7_Witness ==
    /\ EstimateReturned
    /\ Len(report.data_used_to_extrapolate) >= 3
    /\ report.n_logical_qubits_r_squared # report.n_measurement_steps_r_squared

\* m * x' + c at the query point, for the fit that ran
FittedValue ==
    LET env == CHOOSE e \in Envs : TRUE
    IN  IF op = "linear"
        THEN PolyEval(Polyfit(x, TRUE, y, env), steps_to_extrapolate_to)
        ELSE LogarithmicPoint(
                 Polyfit(Hundredths(NpLogSeq(x)), AllFinite(NpLogSeq(x)), y, env),
                 steps_to_extrapolate_to)

FitReturned == FitDone /\ fit_result.status = "returned"

\* C8 as claimed: under either family the integer returned is at least the
\* fitted value m*x' + c.
C8_NeverUnderReported ==
    FitReturned => fit_result.value >= Ceil(FittedValue)

\* C8 as amended: the Logarithmic fit returns at least the fitted value; the
\* Linear fit returns at least the fitted value rounded to 5 decimals, so it
\* falls below the fitted value by at most 0.000005.
C8_UnderReportedByAtMostTheRounding ==
    FitReturned =>
        \/ fit_result.value >= Ceil(FittedValue)
        \/ /\ op = "linear"
           /\ fit_result.value = Ceil(FittedValue) - 1
           /\ FittedValue.num % FittedValue.den
                  <= FittedValue.den \div (2 * (10 ^ Decimals))

\* a Linear fit that returned less than its fitted value
C8_Witness ==
    /\ FitReturned
    /\ op = "linear"
    /\ Positive(x)
    /\ fit_result.value < Ceil(FittedValue)

\* C9: under either family the projection is the fitted value rounded to 5
\* decimals and then taken to its ceiling.
C9_BothFamiliesRoundThenCeil ==
    FitReturned => fit_result.value = Ceil(Round(FittedValue))

\* C10 as claimed: the report's node and gate counts are the program's, and
\* the node count handed downstream agrees with the report's.
C10_CountsAreTheProgramsOwn ==
    EstimateReturned =>
        /\ report.n_nodes = program.n_nodes
        /\ report.n_t_gates = program.n_t_gates
        /\ report.n_rotation_gates = program.n_rotation_gates
        /\ extrapolated_info.n_nodes = report.n_nodes

\* C10 as amended: the report's node count is the program's; its gate counts
\* are those the downstream step returned; the graph data handed downstream
\* carries the program's gate counts and their sum as its node count.
C10_NodesFromProgramGatesFromDownstream ==
    EstimateReturned =>
        /\ report.n_nodes = program.n_nodes
        /\ report.n_t_gates = resource_info.n_t_gates
        /\ report.n_rotation_gates = resource_info.n_rotation_gates
        /\ extrapolated_info.n_t_gates = program.n_t_gates
        /\ extrapolated_info.n_rotation_gates = program.n_rotation_gates
        /\ extrapolated_info.n_nodes = program.n_t_gates + program.n_rotation_gates

\* a report built from a downstream result whose counts are not the program's
C10_Witness ==
    /\ EstimateReturned
    /\ resource_info.n_nodes # program.n_nodes
    /\ resource_info.n_t_gates # program.n_t_gates
    /\ resource_info.n_rotation_gates # program.n_rotation_gates
====
